---- MODULE Spec2Model ----
(***************************************************************************)
(* A model of src/src/main.rs of archer884/search: the library registry    *)
(* (libraries.json), the per-library index directories, the index build    *)
(* (create-index and update), the paginated search and the dispatch of     *)
(* its results (print or open).                                            *)
(*                                                                         *)
(* One process runs one command at a time (the program is a single-        *)
(* threaded CLI).  A command is cut into steps where the disk is left in a *)
(* different state if the process ends there.  Crash ends the process at   *)
(* any step: it stands for a kill and for every `?` of the source that is  *)
(* not modelled by a named failure of its own (the disk is left the same). *)
(***************************************************************************)
EXTENDS Integers, Sequences, FiniteSets

\* ------------------------------------------------------------------ bounds

\* Roots (library directories, also the possible working directories) and
\* library names the commands are run with.
Roots == {"r1", "r2"}
Names == {"a", "b"}

\* The most eligible files a crawled root holds.
MaxFiles == 3

\* The batch size of initialize (20_000 in the source), scaled down so that
\* a build crosses it.
BATCH_SIZE == 2

\* ------------------------------------------------------------------- state

VARIABLES
    registry,    \* libraries.json: [file, mapping]
    dirs,        \* <storage>/<name>/ for every name: [exists, meta, docs]
    pc,          \* the running command's position, "idle" between commands
    cmd,         \* the running (or last) command: [kind, name, root, force]
    nfiles,      \* eligible files read_paths yields under cmd.root
    count,       \* initialize's count
    added,       \* documents passed to writer.add_document
    pending,     \* documents added and not yet committed
    commits,     \* sizes of the commits made inside the loop, in order
    mapping,     \* update_registry's in-memory mapping, to be written
    before,      \* registry and dirs when the command started
    fsLog,       \* file-system writes the command has made
    result,      \* how the command ended
    failedAt,    \* the step it ended in, when it did not end Ok
    unreadable,  \* the count of the file whose fs::read failed, 0 if none
    ranked,      \* the engine's ranked hits for the query, best first
    broken,      \* hits whose stored document yields no path
    sargs,       \* the search's arguments: [skip, take, open]
    texts,       \* run's texts: the result paths, in order
    pos,         \* the next element of texts the dispatch loop takes
    state,       \* run's `state`: an Opener invocation has been made
    log,         \* what dispatch did, in order: open, sleep, print
    spc,         \* the search's position: "idle", "dispatch", "done"
    sresult      \* how the search ended

bvars == <<registry, dirs, pc, cmd, nfiles, count, added, pending, commits,
           mapping, before, fsLog, result, failedAt, unreadable>>

svars == <<ranked, broken, sargs, texts, pos, state, log, spc, sresult>>

vars == <<bvars, svars>>

NoCmd == [kind |-> "none", name |-> "a", root |-> "r1", force |-> FALSE]
NoDir == [exists |-> FALSE, meta |-> FALSE, docs |-> 0]
NoRegistry == [file |-> "absent", mapping |-> {}]

\* ---------------------------------------------------------------- registry

\* Libraries::from_path: a missing file is the empty mapping; a file that
\* does not parse (an empty or half-written one) is an error.
ParseFails(reg) == reg.file = "partial"

from_path(reg) == IF reg.file = "ok" THEN reg.mapping ELSE {}

\* Libraries::get_index_name: the name the mapping holds for path.
HasLibrary(m, path) == \E e \in m : e.root = path

get_index_name(m, path) == (CHOOSE e \in m : e.root = path).name

\* A mutant of AlreadyRegistered: the force flag is read the wrong way round.
AlreadyRegistered_ForceInverted(m, name, force) ==
    (\E e \in m : e.name = name) /\ force

\* update_registry's guard: the name is a value of the mapping and force is
\* not set.
AlreadyRegistered(m, name, force) ==
    (\E e \in m : e.name = name) /\ ~force

\* HashMap::insert: the entry of the key, if any, is replaced.
insert(m, root, name) ==
    {e \in m : e.root # root} \cup {[root |-> root, name |-> name]}

\* A mutant of NewMapping: the entries of the name are not filtered out.
NewMapping_NoFilter(m, root, name) == insert(m, root, name)

\* update_registry's new mapping: entries of the name filtered out, then
\* root -> name inserted.
NewMapping(m, root, name) ==
    insert({e \in m : e.name # name}, root, name)

\* ------------------------------------------------------------ index builds

\* A mutant of UpdateCmdForce: update builds without force.
UpdateCmdForce_False == FALSE

\* IndexCmd::force is the flag; UpdateCmd::force is always true.
UpdateCmdForce == TRUE

\* A mutant of IndexExists: the force flag is read the wrong way round.
IndexExists_ForceInverted(dir, force) == dir.meta /\ force

\* get_data_path's guard: meta.json exists and force is not set.
IndexExists(dir, force) == dir.meta /\ ~force

\* A mutant of RemovesDir: the directory is removed only under force.
RemovesDir_OnlyForced(dir, force) == dir.exists /\ force

\* get_data_path's removal: the directory is removed when it exists.
RemovesDir(dir, force) == dir.exists

\* initialize commits inside the loop when count % BATCH_SIZE == 0.
CommitsAt(c) == c % BATCH_SIZE = 0

Fail(kind) ==
    /\ pc' = "idle"
    /\ result' = kind
    /\ failedAt' = pc

\* No index has been built and no command has run.
BuildInit ==
    /\ registry = NoRegistry
    /\ dirs = [n \in Names |-> NoDir]
    /\ pc = "idle"
    /\ cmd = NoCmd
    /\ nfiles = 0
    /\ count = 0
    /\ added = 0
    /\ pending = 0
    /\ commits = <<>>
    /\ mapping = {}
    /\ before = [registry |-> NoRegistry, dirs |-> [n \in Names |-> NoDir]]
    /\ fsLog = {}
    /\ result = "none"
    /\ failedAt = "none"
    /\ unreadable = 0

Begin(c, n) ==
    /\ cmd' = c
    /\ nfiles' = n
    /\ count' = 0
    /\ added' = 0
    /\ pending' = 0
    /\ commits' = <<>>
    /\ mapping' = {}
    /\ before' = [registry |-> registry, dirs |-> dirs]
    /\ fsLog' = {}
    /\ unreadable' = 0
    /\ UNCHANGED <<registry, dirs>>

\* dispatch, Command::CreateIndex: build_index(args) up to initialize.
CreateIndex ==
    /\ pc = "idle"
    /\ \E name \in Names, root \in Roots, force \in BOOLEAN, n \in 0..MaxFiles :
          Begin([kind |-> "create", name |-> name, root |-> root,
                 force |-> force], n)
    /\ pc' = "get_data_path"
    /\ result' = "none"
    /\ failedAt' = "none"
    /\ UNCHANGED svars

\* dispatch, Command::Update: update_index up to build_index.
UpdateIndex ==
    /\ pc = "idle"
    /\ \E cwd \in Roots, n \in 0..MaxFiles :
          LET m == from_path(registry) IN
          IF ParseFails(registry)
          THEN /\ Begin([kind |-> "update", name |-> "a", root |-> cwd,
                         force |-> UpdateCmdForce], n)
               /\ pc' = "idle"
               /\ result' = "ParseError"
               /\ failedAt' = "update_index"
          ELSE IF ~HasLibrary(m, cwd)
          THEN /\ Begin([kind |-> "update", name |-> "a", root |-> cwd,
                         force |-> UpdateCmdForce], n)
               /\ pc' = "idle"
               /\ result' = "NotFound"
               /\ failedAt' = "update_index"
          ELSE /\ Begin([kind |-> "update", name |-> get_index_name(m, cwd),
                         root |-> cwd, force |-> UpdateCmdForce], n)
               /\ pc' = "get_data_path"
               /\ result' = "none"
               /\ failedAt' = "none"
    /\ UNCHANGED svars

\* get_data_path: the guard, remove_dir_all when the path exists,
\* create_dir_all.
GetDataPath ==
    /\ pc = "get_data_path"
    /\ LET dir == dirs[cmd.name] IN
       IF IndexExists(dir, cmd.force)
       THEN /\ Fail("AlreadyExists")
            /\ UNCHANGED <<dirs, fsLog>>
       ELSE /\ dirs' = [dirs EXCEPT ![cmd.name] =
                           [exists |-> TRUE, meta |-> FALSE, docs |-> 0]]
            /\ fsLog' = fsLog \cup {"create_dir_all"} \cup
                        (IF RemovesDir(dir, cmd.force)
                         THEN {"remove_dir_all"} ELSE {})
            /\ pc' = "create_in_dir"
            /\ UNCHANGED <<result, failedAt>>
    /\ UNCHANGED <<registry, cmd, nfiles, count, added, pending, commits,
                   mapping, before, unreadable>>
    /\ UNCHANGED svars

\* initialize: Index::create_in_dir, which writes meta.json, and
\* index.writer; the engine may refuse.
CreateInDir ==
    /\ pc = "create_in_dir"
    /\ \E ok \in BOOLEAN :
          IF ok
          THEN /\ dirs' = [dirs EXCEPT ![cmd.name].meta = TRUE]
               /\ fsLog' = fsLog \cup {"create_in_dir"}
               /\ pc' = "crawl"
               /\ UNCHANGED <<result, failedAt>>
          ELSE /\ Fail("EngineError")
               /\ UNCHANGED <<dirs, fsLog>>
    /\ UNCHANGED <<registry, cmd, nfiles, count, added, pending, commits,
                   mapping, before, unreadable>>
    /\ UNCHANGED svars

\* A mutant of ReadError: the unreadable file is skipped and the loop goes on.
ReadError_Skip ==
    /\ unreadable' = count + 1
    /\ UNCHANGED <<pc, result, failedAt, added>>

\* initialize: `fs::read(&path)?` on a file that cannot be read returns the
\* error from initialize, and so from build_index and run.
ReadError ==
    /\ Fail("IoError")
    /\ unreadable' = count + 1
    /\ UNCHANGED added

\* initialize: one iteration of the loop over read_paths(root): the count,
\* the commit when the count is a multiple of the batch size, the read and
\* add_document.
CrawlStep ==
    /\ pc = "crawl"
    /\ count < nfiles
    /\ count' = count + 1
    /\ LET commit == CommitsAt(count + 1)
           left == IF commit THEN 0 ELSE pending
       IN
       /\ commits' = IF commit THEN Append(commits, pending) ELSE commits
       /\ dirs' = IF commit
                  THEN [dirs EXCEPT ![cmd.name].docs = @ + pending]
                  ELSE dirs
       /\ fsLog' = IF commit THEN fsLog \cup {"commit"} ELSE fsLog
       /\ \E readable \in BOOLEAN :
             IF readable
             THEN /\ added' = added + 1
                  /\ pending' = left + 1
                  /\ UNCHANGED <<pc, result, failedAt, unreadable>>
             ELSE /\ ReadError
                  /\ pending' = left
    /\ UNCHANGED <<registry, cmd, nfiles, mapping, before>>
    /\ UNCHANGED svars

\* initialize: the commit after the loop.
FinalCommit ==
    /\ pc = "crawl"
    /\ count = nfiles
    /\ dirs' = [dirs EXCEPT ![cmd.name].docs = @ + pending]
    /\ pending' = 0
    /\ fsLog' = fsLog \cup {"final_commit"}
    /\ pc' = "update_registry"
    /\ UNCHANGED <<registry, cmd, nfiles, count, added, commits, mapping,
                   before, result, failedAt, unreadable>>
    /\ UNCHANGED svars

\* update_registry up to File::create, which truncates libraries.json.
UpdateRegistry ==
    /\ pc = "update_registry"
    /\ IF ParseFails(registry)
       THEN /\ Fail("ParseError")
            /\ UNCHANGED <<registry, mapping, fsLog>>
       ELSE IF AlreadyRegistered(from_path(registry), cmd.name, cmd.force)
       THEN /\ Fail("AlreadyExists")
            /\ UNCHANGED <<registry, mapping, fsLog>>
       ELSE /\ mapping' = NewMapping(from_path(registry), cmd.root, cmd.name)
            /\ registry' = [file |-> "partial", mapping |-> {}]
            /\ fsLog' = fsLog \cup {"File::create"}
            /\ pc' = "to_writer_pretty"
            /\ UNCHANGED <<result, failedAt>>
    /\ UNCHANGED <<dirs, cmd, nfiles, count, added, pending, commits, before,
                   unreadable>>
    /\ UNCHANGED svars

\* update_registry: serde_json::to_writer_pretty and the return.
ToWriterPretty ==
    /\ pc = "to_writer_pretty"
    /\ registry' = [file |-> "ok", mapping |-> mapping]
    /\ fsLog' = fsLog \cup {"to_writer_pretty"}
    /\ pc' = "idle"
    /\ result' = "Ok"
    /\ UNCHANGED <<dirs, cmd, nfiles, count, added, pending, commits, mapping,
                   before, failedAt, unreadable>>
    /\ UNCHANGED svars

\* The process ends where it stands.
Crash ==
    /\ pc # "idle"
    /\ Fail("Crashed")
    /\ UNCHANGED <<registry, dirs, cmd, nfiles, count, added, pending,
                   commits, mapping, before, fsLog, unreadable>>
    /\ UNCHANGED svars

\* ------------------------------------------------------- search, dispatch

\* The most hits the engine ranks for the query, and the largest skip and
\* take a search is run with.
MaxDocs == 4
MaxSkip == 3
MaxTake == 3

\* Args::skip_take: take defaults to 10, skip to 0 (usize's default).
DefaultTake == 10

\* An absent option is the empty set, Some(n) is {n}.
Options(S) == {{}} \cup {{n} : n \in S}

unwrap_or(opt, d) == IF opt = {} THEN d ELSE CHOOSE n \in opt : TRUE

skip_take(skipOpt, takeOpt) ==
    [skip |-> unwrap_or(skipOpt, 0), take |-> unwrap_or(takeOpt, DefaultTake)]

Min(a, b) == IF a < b THEN a ELSE b

\* A mutant of TopDocs: the limit is taken as the window's end.
TopDocs_LimitIsEnd(hits, limit, offset) ==
    SubSeq(hits, offset + 1, Min(limit, Len(hits)))

\* TopDocs::with_limit(limit).and_offset(offset) over the ranked hits: the
\* hits ranked offset+1 .. offset+limit.
TopDocs(hits, limit, offset) ==
    SubSeq(hits, offset + 1, Min(offset + limit, Len(hits)))

\* run's filter_map: a hit whose document does not load, or holds no path,
\* is dropped; the others yield their stored path (here the document id).
RECURSIVE filter_map(_, _)
filter_map(hits, bad) ==
    IF hits = <<>> THEN <<>>
    ELSE (IF Head(hits) \in bad THEN <<>> ELSE <<Head(hits)>>)
         \o filter_map(Tail(hits), bad)

\* run, from args.skip_take() to texts.
search(hits, bad, skip, take) == filter_map(TopDocs(hits, take, skip), bad)

\* A mutant of InitialState: the loop starts as if a file had been opened.
InitialState_True == TRUE

\* run: `let mut state = false`.
InitialState == FALSE

Sleep == [ev |-> "sleep", path |-> 0, ok |-> TRUE]
Open(path, ok) == [ev |-> "open", path |-> path, ok |-> ok]
Println(path) == [ev |-> "print", path |-> path, ok |-> TRUE]

SearchIdle ==
    /\ sargs = [skip |-> 0, take |-> 0, open |-> FALSE]
    /\ texts = <<>>
    /\ pos = 1
    /\ state = InitialState
    /\ log = <<>>
    /\ spc = "idle"
    /\ sresult = "none"

\* An index whose engine ranks n hits for the query, some of them broken.
SearchInit ==
    /\ BuildInit
    /\ \E n \in 0..MaxDocs :
          /\ ranked = [i \in 1..n |-> i]
          /\ broken \in SUBSET (1..n)
    /\ SearchIdle

\* run without a subcommand, up to the dispatch of texts.
Search ==
    /\ spc \in {"idle", "done"}
    /\ \E skipOpt \in Options(0..MaxSkip), takeOpt \in Options(0..MaxTake),
          open \in BOOLEAN :
          LET st == skip_take(skipOpt, takeOpt) IN
          /\ sargs' = [skip |-> st.skip, take |-> st.take, open |-> open]
          /\ texts' = search(ranked, broken, st.skip, st.take)
    /\ pos' = 1
    /\ state' = InitialState
    /\ log' = <<>>
    /\ spc' = "dispatch"
    /\ sresult' = "none"
    /\ UNCHANGED <<ranked, broken>>
    /\ UNCHANGED bvars

\* run, args.open: one iteration of the loop: the sleep unless this is the
\* first, then open::that(path)?.
OpenStep ==
    /\ spc = "dispatch"
    /\ sargs.open
    /\ pos <= Len(texts)
    /\ \E ok \in BOOLEAN :
          /\ log' = log \o (IF state THEN <<Sleep>> ELSE <<>>)
                        \o <<Open(texts[pos], ok)>>
          /\ IF ok
             THEN UNCHANGED <<spc, sresult>>
             ELSE spc' = "done" /\ sresult' = "OpenError"
    /\ state' = TRUE
    /\ pos' = pos + 1
    /\ UNCHANGED <<ranked, broken, sargs, texts>>
    /\ UNCHANGED bvars

\* run, not args.open: one iteration of the printing loop.
PrintStep ==
    /\ spc = "dispatch"
    /\ ~sargs.open
    /\ pos <= Len(texts)
    /\ log' = Append(log, Println(texts[pos]))
    /\ pos' = pos + 1
    /\ UNCHANGED <<ranked, broken, sargs, texts, state, spc, sresult>>
    /\ UNCHANGED bvars

\* run: texts is exhausted, Ok(()).
Finish ==
    /\ spc = "dispatch"
    /\ pos > Len(texts)
    /\ spc' = "done"
    /\ sresult' = "Ok"
    /\ UNCHANGED <<ranked, broken, sargs, texts, pos, state, log>>
    /\ UNCHANGED bvars

SearchNext ==
    \/ Search
    \/ OpenStep
    \/ PrintStep
    \/ Finish

SearchSpec == SearchInit /\ [][SearchNext]_vars

Init ==
    /\ BuildInit
    /\ ranked = <<>>
    /\ broken = {}
    /\ SearchIdle

Next ==
    \/ CreateIndex
    \/ UpdateIndex
    \/ GetDataPath
    \/ CreateInDir
    \/ CrawlStep
    \/ FinalCommit
    \/ UpdateRegistry
    \/ ToWriterPretty
    \/ Crash

Spec == Init /\ [][Next]_vars

\* ------------------------------------------------------------------ claims

Mapping == registry.mapping
Was == from_path(before.registry)
WasDir == before.dirs[cmd.name]
Building == cmd.kind \in {"create", "update"}
Returned == pc = "idle" /\ result \notin {"none", "Crashed"}

\* get_data_path has returned its path to initialize.
PastGetDataPath ==
    \/ pc \notin {"idle", "get_data_path"}
    \/ pc = "idle" /\ failedAt \notin {"get_data_path", "update_index"}
                   /\ result # "none"

UniqueNames(m) == \A e1, e2 \in m : e1.name = e2.name => e1 = e2
UniqueRoots(m) == \A e1, e2 \in m : e1.root = e2.root => e1 = e2

\* C1: after any sequence of create-index (forced or not) and update
\* commands, libraries.json never holds two entries with the same name, nor
\* two with the same root.
C1_RegistryUnique ==
    /\ UniqueNames(Mapping)
    /\ UniqueRoots(Mapping)

\* A forced create-index has moved a registered name to another root, and
\* the registry holds an entry for each name.
C1_Witness ==
    /\ pc = "idle" /\ result = "Ok" /\ cmd.kind = "create" /\ cmd.force
    /\ \E e \in Was : e.name = cmd.name /\ e.root # cmd.root
    /\ \E e \in Was : e.name # cmd.name /\ e.root = cmd.root
    /\ Mapping # {}

RegisteredElsewhere ==
    /\ cmd.kind = "create"
    /\ ~cmd.force
    /\ \E e \in Was : e.name = cmd.name /\ e.root # cmd.root

\* C2: a registration of name N for root R without force, while the
\* registry maps another root to N, fails with AlreadyExists, and
\* libraries.json is the same after the failed call as before it.
C2_UnforcedRegisterFails ==
    RegisteredElsewhere =>
        /\ registry = before.registry
        /\ pc # "to_writer_pretty"
        /\ "File::create" \notin fsLog
        /\ pc = "idle" => result # "Ok"
        /\ (Returned /\ failedAt = "update_registry") => result = "AlreadyExists"

\* update_registry itself refused the registration (the index was built:
\* its directory held no metadata).
C2_Witness ==
    /\ RegisteredElsewhere
    /\ Returned
    /\ failedAt = "update_registry"
    /\ result = "AlreadyExists"
    /\ "final_commit" \in fsLog

UnforcedOnExistingIndex ==
    /\ cmd.kind = "create"
    /\ ~cmd.force
    /\ WasDir.meta

\* C3: create-index without force on a library whose index directory holds
\* metadata fails with AlreadyExists before any destructive action: the
\* index directories and the registry are what they were.
C3_ExistingIndexBlocksBuild ==
    UnforcedOnExistingIndex =>
        /\ pc \in {"get_data_path", "idle"}
        /\ fsLog = {}
        /\ dirs = before.dirs
        /\ registry = before.registry
        /\ Returned => (result = "AlreadyExists" /\ failedAt = "get_data_path")

\* The refused build left an index with committed documents in place.
C3_Witness ==
    /\ UnforcedOnExistingIndex
    /\ Returned
    /\ result = "AlreadyExists"
    /\ dirs[cmd.name].docs > 0

\* C4 (as claimed): a crash during the rewrite of libraries.json leaves the
\* complete old mapping or the complete new one on disk.
C4_RewriteAllOrNothing ==
    (pc = "idle" /\ result = "Crashed" /\ failedAt = "to_writer_pretty") =>
        \/ registry = before.registry
        \/ registry = [file |-> "ok",
                       mapping |-> NewMapping(Was, cmd.root, cmd.name)]

\* C5 (as claimed): an eligible file that cannot be read does not abort the
\* crawl: the build goes on to every other file and to the final commit.
C5_UnreadableFileSkipped ==
    unreadable # 0 =>
        \/ pc \notin {"idle"}
        \/ count = nfiles /\ "final_commit" \in fsLog

\* C5 (amended): an eligible file that cannot be read aborts the build at
\* that file with the I/O error: no later file is read or added, the final
\* commit is not made, only the in-loop commits made so far are in the
\* index, and the registry is not changed.
C5_UnreadableFileAborts ==
    unreadable # 0 =>
        /\ pc = "idle"
        /\ result = "IoError"
        /\ failedAt = "crawl"
        /\ count = unreadable
        /\ added = unreadable - 1
        /\ "final_commit" \notin fsLog
        /\ dirs[cmd.name].docs = added - pending
        /\ registry = before.registry

\* The unreadable file was not the last one, and files before it were added.
C5_Witness ==
    /\ unreadable # 0
    /\ unreadable < nfiles
    /\ added > 0
    /\ result = "IoError"

RegisteredHere ==
    /\ cmd.kind = "update"
    /\ ~ParseFails(before.registry)
    /\ HasLibrary(Was, cmd.root)

UnregisteredHere ==
    /\ cmd.kind = "update"
    /\ ~ParseFails(before.registry)
    /\ ~HasLibrary(Was, cmd.root)

\* C7: update in a directory the (readable) registry maps to N rebuilds N
\* with force: it never fails with AlreadyExists, and after a successful
\* update the mapping is the mapping before it.  In a directory the registry
\* does not map, update fails with NotFound and has deleted and written
\* nothing.
C7_UpdateKeepsRegistry ==
    /\ RegisteredHere =>
          /\ cmd.force
          /\ cmd.name = get_index_name(Was, cmd.root)
          /\ result # "AlreadyExists"
          /\ (WasDir.exists /\ PastGetDataPath) => "remove_dir_all" \in fsLog
          /\ (pc = "idle" /\ result = "Ok") =>
                (registry.file = "ok" /\ Mapping = Was)
    /\ UnregisteredHere =>
          /\ pc = "idle"
          /\ result = "NotFound"
          /\ fsLog = {}
          /\ dirs = before.dirs
          /\ registry = before.registry

\* A successful update of a library that had a complete index, with another
\* library registered beside it.
C7_Witness ==
    /\ RegisteredHere
    /\ pc = "idle" /\ result = "Ok"
    /\ WasDir.meta
    /\ Cardinality(Mapping) = 2

\* C8 (as claimed): a build without force never removes an index directory
\* that existed before it, whatever the directory held.
C8_UnforcedNeverRemoves ==
    (Building /\ ~cmd.force /\ WasDir.exists) => "remove_dir_all" \notin fsLog

\* C8 (amended): a build removes an existing index directory that holds
\* metadata only when force is set; an existing directory without metadata
\* is removed and recreated by every build, also without force.
C8_RemovesUnlessMetadataUnforced ==
    Building =>
        /\ "remove_dir_all" \in fsLog =>
              (WasDir.exists /\ (cmd.force \/ ~WasDir.meta))
        /\ (PastGetDataPath /\ WasDir.exists) => "remove_dir_all" \in fsLog

\* A build without force has removed a directory that held no metadata.
C8_Witness ==
    /\ Building
    /\ ~cmd.force
    /\ WasDir.exists
    /\ "remove_dir_all" \in fsLog

\* C9 (as claimed): in a build that has finished, every commit made inside
\* the loop held exactly BATCH_SIZE documents added since the commit before
\* it (or the start), and every added document has been committed.
C9_CommitEveryBatch ==
    (pc = "idle" /\ result = "Ok") =>
        /\ \A i \in 1..Len(commits) : commits[i] = BATCH_SIZE
        /\ pending = 0
        /\ dirs[cmd.name].docs = added

\* The results of the search of the current index with the given window.
Run(skip, take) == search(ranked, broken, skip, take)

FirstN(q, n) == SubSeq(q, 1, Min(n, Len(q)))

\* C6: for a fixed index and query, a search with take = t returns at most t
\* paths, and the results of (skip 0, take t) followed by those of (skip t,
\* take t) are the first 2t results of (skip 0, take 2t), also when hits are
\* dropped because their stored path cannot be loaded.
C6_Pagination ==
    /\ spc # "idle" => Len(texts) <= sargs.take
    /\ \A t \in 0..MaxTake :
          /\ \A k \in 0..MaxSkip : Len(Run(k, t)) <= t
          /\ Run(0, t) \o Run(t, t) = FirstN(Run(0, 2 * t), 2 * t)

\* A second page was searched that holds a result and a dropped hit, on an
\* index with two full pages of hits and a dropped hit on the first page too.
C6_Witness ==
    /\ spc # "idle"
    /\ sargs.take > 0
    /\ sargs.skip = sargs.take
    /\ Len(ranked) >= 2 * sargs.take
    /\ Len(texts) > 0
    /\ Len(texts) < sargs.take
    /\ \E d \in broken : d <= sargs.take

IsOpen(e) == e.ev = "open"
Opens == SelectSeq(log, IsOpen)

\* C10: in open mode the Opener is invoked on the result paths in result
\* order, with no delay before the first invocation and exactly one delay
\* before each later one; once an invocation fails, dispatch stops with that
\* failure and opens no later path.
C10_OpenThrottled ==
    (spc # "idle" /\ sargs.open) =>
        /\ \A i \in 1..Len(log) :
              /\ (i % 2 = 1) => log[i].ev = "open"
              /\ (i % 2 = 0) => log[i] = Sleep
        /\ Len(log) % 2 = 0 => log = <<>>
        /\ Len(Opens) = pos - 1
        /\ Len(Opens) <= Len(texts)
        /\ \A j \in 1..Len(Opens) : Opens[j].path = texts[j]
        /\ \A i \in 1..Len(log) :
              (log[i].ev = "open" /\ ~log[i].ok) =>
                 (i = Len(log) /\ spc = "done" /\ sresult = "OpenError")
        /\ sresult = "OpenError" =>
              (spc = "done" /\ log # <<>> /\ ~log[Len(log)].ok)
        /\ sresult = "Ok" => Len(Opens) = Len(texts)

\* The second invocation failed after one delay, with a path left unopened.
C10_Witness ==
    /\ sargs.open
    /\ sresult = "OpenError"
    /\ Len(Opens) = 2
    /\ Len(log) = 3
    /\ Len(texts) > 2

====
